---- MODULE Spec2Model ----
(***************************************************************************)
(* A model of bf.py: the brainfuck interpreter (execute) and the           *)
(* single-pass translator to C (Compiler, compile).                        *)
(*                                                                         *)
(* Source text is a sequence of one-character strings.  Positions are      *)
(* 0-based as in the Python code; At(s, i) reads s[i].                     *)
(***************************************************************************)
EXTENDS Integers, Sequences, FiniteSets, TLC

(***************************************************************************)
(* Bounds of the model.                                                    *)
(***************************************************************************)
\* longest raw source text of the general families
MaxLen == 4
\* longest array the interpreter may grow (MoveRight is disabled beyond it)
MaxTape == 5
\* longest output / diagnostic stream (Output and DebugDump are disabled beyond it)
MaxOut == 5
\* longest run of + - > < of the arithmetic family
MaxArith == 5

(***************************************************************************)
(* Program constants.                                                      *)
(***************************************************************************)
\* the mask of "& 0xff" (bf.py:111, 113)
ByteMask == 255
\* the cell value stored on end of input (bf.py:120)
EofCell == 255

Byte == 0 .. ByteMask

At(s, i) == s[i + 1]

Seqs(S, n) == UNION {[1 .. k -> S] : k \in 0 .. n}

Range(s) == {s[i] : i \in 1 .. Len(s)}

\* lines 111, 113 without the mask
NoMask(x) == x

\* x & 0xff on a Python int (two's complement, any sign)
And0xff(x) == x % (ByteMask + 1)

VARIABLES
    raw,              \* source_input: the raw source text
    process_input,    \* the bytes of the input stream
    input_pos,        \* the position of the input stream: the bytes read so far
    debug,            \* the debug flag
    pc,               \* "start", "run", "done", "exit2", "exit3", "exit4"
    source,           \* the filtered source
    source_cursor,    \* the instruction pointer
    source_brackets,  \* the stack of positions of the entered loops
    array,            \* the tape
    cursor,           \* the active cell
    process_output,   \* the bytes written
    stderr,           \* the dumps written by '!': <<array, cursor>> each
    maxCursor,        \* history: the largest cursor reached
    touched,          \* history: the cells that + - , wrote
    compiler,         \* the Compiler object
    cpos,             \* how many characters compile() has read
    cpc,              \* "parse", "done", "exit3", "exit4"
    machine,          \* the emitted C program in execution
    steps,            \* history: the turns of execute's loop taken
    bodies            \* history: the loop bodies entered

vars == <<raw, process_input, input_pos, debug, pc, source, source_cursor, source_brackets,
          array, cursor, process_output, stderr, maxCursor, touched,
          compiler, cpos, cpc, machine, steps, bodies>>

ivars == <<raw, process_input, input_pos, debug, pc, source, source_cursor, source_brackets,
           array, cursor, process_output, stderr, maxCursor, touched>>

cvars == <<compiler, cpos, cpc>>

avars == <<machine, steps, bodies>>

(***************************************************************************)
(* The lexical filter: re.sub('\#[^\n]*(\n|$)', '', source).               *)
(***************************************************************************)
\* the same for the pattern [^\n]*\n, which needs the line terminator: -1 is
\* no match
RECURSIVE CommentEndNoEof(_, _)
CommentEndNoEof(s, i) ==
    IF i >= Len(s) THEN -1
    ELSE IF At(s, i) = "\n" THEN i + 1
    ELSE CommentEndNoEof(s, i + 1)

\* the position after the match of [^\n]*(\n|$) that starts at i
RECURSIVE CommentEnd(_, _)
CommentEnd(s, i) ==
    IF i >= Len(s) THEN i
    ELSE IF At(s, i) = "\n" THEN i + 1
    ELSE CommentEnd(s, i + 1)

\* the text from position i on with every match removed; a '#' at which the
\* pattern does not match (CommentEnd < 0) stays
RECURSIVE SubFrom(_, _)
SubFrom(s, i) ==
    IF i >= Len(s) THEN <<>>
    ELSE IF At(s, i) = "#" /\ CommentEnd(s, i + 1) >= 0
         THEN SubFrom(s, CommentEnd(s, i + 1))
         ELSE <<At(s, i)>> \o SubFrom(s, i + 1)

Filter(s) == SubFrom(s, 0)

(***************************************************************************)
(* execute(): one action per dispatched instruction.                       *)
(***************************************************************************)
Dispatch == pc = "run" /\ source_cursor < Len(source)

cmd == At(source, source_cursor)

Commands == {">", "<", "+", "-", ".", ",", "[", "]", "!"}

\* lines 90-96: read and filter the source, create the tape
ReadSource ==
    /\ pc = "start"
    /\ source' = Filter(raw)
    /\ source_cursor' = 0
    /\ source_brackets' = <<>>
    /\ array' = <<0>>
    /\ cursor' = 0
    /\ pc' = "run"
    /\ UNCHANGED <<raw, process_input, input_pos, debug, process_output, stderr,
                   maxCursor, touched, cvars>>

\* line 103 with > for >=
GrowNever(arr, cur) == IF cur > Len(arr) THEN Append(arr, 0) ELSE arr

Grow(arr, cur) == IF cur >= Len(arr) THEN Append(arr, 0) ELSE arr

\* lines 101-104, 155
MoveRight ==
    /\ Dispatch /\ cmd = ">"
    /\ cursor + 1 < MaxTape
    /\ cursor' = cursor + 1
    /\ array' = Grow(array, cursor + 1)
    /\ source_cursor' = source_cursor + 1
    /\ maxCursor' = IF cursor + 1 > maxCursor THEN cursor + 1 ELSE maxCursor
    /\ UNCHANGED <<raw, process_input, input_pos, debug, pc, source, source_brackets,
                   process_output, stderr, touched, cvars>>

\* lines 105-109 with the bounds test made on the cursor before the move
MoveLeftLate ==
    /\ Dispatch /\ cmd = "<"
    /\ cursor' = cursor - 1
    /\ IF cursor < 0
       THEN pc' = "exit2" /\ source_cursor' = source_cursor
       ELSE pc' = pc /\ source_cursor' = source_cursor + 1
    /\ UNCHANGED <<raw, process_input, input_pos, debug, source, source_brackets,
                   array, process_output, stderr, maxCursor, touched, cvars>>

\* lines 105-109, 155
MoveLeft ==
    /\ Dispatch /\ cmd = "<"
    /\ cursor' = cursor - 1
    /\ IF cursor - 1 < 0
       THEN pc' = "exit2" /\ source_cursor' = source_cursor
       ELSE pc' = pc /\ source_cursor' = source_cursor + 1
    /\ UNCHANGED <<raw, process_input, input_pos, debug, source, source_brackets, array,
                   process_output, stderr, maxCursor, touched, cvars>>

\* lines 110-113, 155
Increment ==
    /\ Dispatch /\ cmd = "+"
    /\ array' = [array EXCEPT ![cursor + 1] = And0xff(@ + 1)]
    /\ source_cursor' = source_cursor + 1
    /\ touched' = touched \cup {cursor}
    /\ UNCHANGED <<raw, process_input, input_pos, debug, pc, source, source_brackets,
                   cursor, process_output, stderr, maxCursor, cvars>>

Decrement ==
    /\ Dispatch /\ cmd = "-"
    /\ array' = [array EXCEPT ![cursor + 1] = And0xff(@ - 1)]
    /\ source_cursor' = source_cursor + 1
    /\ touched' = touched \cup {cursor}
    /\ UNCHANGED <<raw, process_input, input_pos, debug, pc, source, source_brackets,
                   cursor, process_output, stderr, maxCursor, cvars>>

\* lines 114-116, 155
Output ==
    /\ Dispatch /\ cmd = "."
    /\ Len(process_output) < MaxOut
    /\ process_output' = Append(process_output, At(array, cursor))
    /\ source_cursor' = source_cursor + 1
    /\ UNCHANGED <<raw, process_input, input_pos, debug, pc, source, source_brackets,
                   array, cursor, stderr, maxCursor, touched, cvars>>

\* lines 119-122 with 0 stored at the end of the stream
ReadCellZeroEof(data) == IF data = <<>> THEN 0 ELSE data[1]

\* lines 119-122: the cell value for the data read

ReadCell(data) == IF data = <<>> THEN EofCell ELSE data[1]

\* line 118: read(1) returns the next byte, or b'' at the end of the stream
read1(stream, pos) == IF pos < Len(stream) THEN <<At(stream, pos)>> ELSE <<>>

\* lines 117-122, 155
Input ==
    /\ Dispatch /\ cmd = ","
    /\ LET data == read1(process_input, input_pos)
       IN /\ input_pos' = input_pos + Len(data)
          /\ array' = [array EXCEPT ![cursor + 1] = ReadCell(data)]
    /\ source_cursor' = source_cursor + 1
    /\ touched' = touched \cup {cursor}
    /\ UNCHANGED <<raw, process_input, debug, pc, source, source_brackets, cursor,
                   process_output, stderr, maxCursor, cvars>>

\* lines 130-136: the position the scan ends at, from position i at nesting level
RECURSIVE ScanClose(_, _, _)
ScanClose(src, i, level) ==
    IF i < Len(src) /\ level > 0
    THEN ScanClose(src, i + 1,
                   IF At(src, i) = "[" THEN level + 1
                   ELSE IF At(src, i) = "]" THEN level - 1
                   ELSE level)
    ELSE i

\* lines 123-142 with the position after the LoopStart pushed at line 125
LoopStartPushNext ==
    /\ Dispatch /\ cmd = "["
    /\ IF At(array, cursor) > 0
       THEN /\ source_brackets' = Append(source_brackets, source_cursor + 1)
            /\ source_cursor' = source_cursor + 1
            /\ pc' = pc
       ELSE LET j == ScanClose(source, source_cursor + 1, 1)
            IN /\ source_brackets' = source_brackets
               /\ IF j >= Len(source)
                  THEN pc' = "exit3" /\ source_cursor' = j
                  ELSE pc' = pc /\ source_cursor' = (j - 1) + 1
    /\ UNCHANGED <<raw, process_input, input_pos, debug, source, array, cursor,
                   process_output, stderr, maxCursor, touched, cvars>>

\* lines 123-142, 155
LoopStart ==
    /\ Dispatch /\ cmd = "["
    /\ IF At(array, cursor) > 0
       THEN /\ source_brackets' = Append(source_brackets, source_cursor)
            /\ source_cursor' = source_cursor + 1
            /\ pc' = pc
       ELSE LET j == ScanClose(source, source_cursor + 1, 1)
            IN /\ source_brackets' = source_brackets
               /\ IF j >= Len(source)
                  THEN pc' = "exit3" /\ source_cursor' = j
                  ELSE pc' = pc /\ source_cursor' = (j - 1) + 1
    /\ UNCHANGED <<raw, process_input, input_pos, debug, source, array, cursor,
                   process_output, stderr, maxCursor, touched, cvars>>

\* lines 143-148 with the jump back left out: the loop body runs once
LoopEndNoJump ==
    /\ Dispatch /\ cmd = "]"
    /\ IF source_brackets = <<>>
       THEN /\ pc' = "exit4"
            /\ UNCHANGED <<source_cursor, source_brackets>>
       ELSE /\ source_cursor' = source_cursor + 1
            /\ source_brackets' = SubSeq(source_brackets, 1, Len(source_brackets) - 1)
            /\ pc' = pc
    /\ UNCHANGED <<raw, process_input, input_pos, debug, source, array, cursor,
                   process_output, stderr, maxCursor, touched, cvars>>

\* lines 143-148, 155
LoopEnd ==
    /\ Dispatch /\ cmd = "]"
    /\ IF source_brackets = <<>>
       THEN /\ pc' = "exit4"
            /\ UNCHANGED <<source_cursor, source_brackets>>
       ELSE /\ source_cursor' = (source_brackets[Len(source_brackets)] - 1) + 1
            /\ source_brackets' = SubSeq(source_brackets, 1, Len(source_brackets) - 1)
            /\ pc' = pc
    /\ UNCHANGED <<raw, process_input, input_pos, debug, source, array, cursor,
                   process_output, stderr, maxCursor, touched, cvars>>

\* lines 149-153, 155: hexdump(array, cursor, sys.stderr) when debug
DebugDump ==
    /\ Dispatch /\ cmd = "!"
    /\ debug => Len(stderr) < MaxOut
    /\ stderr' = IF debug THEN Append(stderr, <<array, cursor>>) ELSE stderr
    /\ source_cursor' = source_cursor + 1
    /\ UNCHANGED <<raw, process_input, input_pos, debug, pc, source, source_brackets,
                   array, cursor, process_output, maxCursor, touched, cvars>>

\* line 155 alone: any other character
Skip ==
    /\ Dispatch /\ cmd \notin Commands
    /\ source_cursor' = source_cursor + 1
    /\ UNCHANGED <<raw, process_input, input_pos, debug, pc, source, source_brackets,
                   array, cursor, process_output, stderr, maxCursor, touched, cvars>>

\* line 98: the loop ends, execute returns
Return ==
    /\ pc = "run" /\ source_cursor >= Len(source)
    /\ pc' = "done"
    /\ UNCHANGED <<raw, process_input, input_pos, debug, source, source_cursor,
                   source_brackets, array, cursor, process_output, stderr,
                   maxCursor, touched, cvars>>

(***************************************************************************)
(* Compiler: the emitted C text is a sequence of statements                *)
(* [op, n]: "header" n (char array[n] = {0}; char *ptr = array),           *)
(* "ptr" n (ptr += n), "assert" n (assert(ptr >= array && ptr < array+n)), *)
(* "add" n ( *ptr += n), "putchar", "getchar", "while", "end", "return".   *)
(***************************************************************************)
Stmt(o, k) == [op |-> o, n |-> k]

write(self, stmts) == [self EXCEPT !.source_output = @ \o stmts]

\* lines 159-167
NewCompiler(dbg, size) ==
    [source_output |-> <<>>, debug |-> dbg, size |-> size,
     comment |-> FALSE, level |-> 0, move |-> 0, incr |-> 0]

\* lines 169-174 without line 174: the displacement is emitted and kept
write_move_keep(self) ==
    IF self.move # 0
    THEN write(self, <<Stmt("ptr", self.move)>>
                     \o (IF self.debug THEN <<Stmt("assert", self.size)>> ELSE <<>>))
    ELSE self

\* lines 169-174 with the assertion written before the move
write_move_assert_first(self) ==
    IF self.move # 0
    THEN [write(self, (IF self.debug THEN <<Stmt("assert", self.size)>> ELSE <<>>)
                      \o <<Stmt("ptr", self.move)>>)
          EXCEPT !.move = 0]
    ELSE self

\* lines 169-174
write_move(self) ==
    IF self.move # 0
    THEN [write(self, <<Stmt("ptr", self.move)>>
                      \o (IF self.debug THEN <<Stmt("assert", self.size)>> ELSE <<>>))
          EXCEPT !.move = 0]
    ELSE self

\* lines 176-179 without line 179: the delta is emitted and kept
write_incr_keep(self) ==
    IF self.incr # 0
    THEN write(self, <<Stmt("add", self.incr)>>)
    ELSE self

\* lines 176-179
write_incr(self) ==
    IF self.incr # 0
    THEN [write(self, <<Stmt("add", self.incr)>>) EXCEPT !.incr = 0]
    ELSE self

\* lines 181-190
start(self) == write(self, <<Stmt("header", self.size)>>)

\* line 224 with level < 0 for level < 1
parseExitsBelow(self, c) == c # "\n" /\ ~self.comment /\ c = "]" /\ self.level < 0

\* lines 223-226: parse(c) exits with code 4
parseExits(self, c) == c # "\n" /\ ~self.comment /\ c = "]" /\ self.level < 1

\* lines 192-231 without lines 193-194: a line terminator does not end a comment
parse_no_newline(self, c) ==
    IF self.comment THEN self
    ELSE IF c = "#" THEN [self EXCEPT !.comment = TRUE]
    ELSE IF c = ">" THEN [write_incr(self) EXCEPT !.move = @ + 1]
    ELSE IF c = "<" THEN [write_incr(self) EXCEPT !.move = @ - 1]
    ELSE IF c = "+" THEN [write_move(self) EXCEPT !.incr = @ + 1]
    ELSE IF c = "-" THEN [write_move(self) EXCEPT !.incr = @ - 1]
    ELSE IF c = "." THEN write(write_incr(write_move(self)), <<Stmt("putchar", 0)>>)
    ELSE IF c = "," THEN write(write_incr(write_move(self)), <<Stmt("getchar", 0)>>)
    ELSE IF c = "[" THEN write([write_incr(write_move(self)) EXCEPT !.level = @ + 1],
                               <<Stmt("while", 0)>>)
    ELSE IF c = "]" THEN write([write_incr(write_move(self)) EXCEPT !.level = @ - 1],
                               <<Stmt("end", 0)>>)
    ELSE self

\* lines 192-231, when parse(c) returns
parse(self, c) ==
    IF c = "\n" THEN [self EXCEPT !.comment = FALSE]
    ELSE IF self.comment THEN self
    ELSE IF c = "#" THEN [self EXCEPT !.comment = TRUE]
    ELSE IF c = ">" THEN [write_incr(self) EXCEPT !.move = @ + 1]
    ELSE IF c = "<" THEN [write_incr(self) EXCEPT !.move = @ - 1]
    ELSE IF c = "+" THEN [write_move(self) EXCEPT !.incr = @ + 1]
    ELSE IF c = "-" THEN [write_move(self) EXCEPT !.incr = @ - 1]
    ELSE IF c = "." THEN write(write_incr(write_move(self)), <<Stmt("putchar", 0)>>)
    ELSE IF c = "," THEN write(write_incr(write_move(self)), <<Stmt("getchar", 0)>>)
    ELSE IF c = "[" THEN write([write_incr(write_move(self)) EXCEPT !.level = @ + 1],
                               <<Stmt("while", 0)>>)
    ELSE IF c = "]" THEN write([write_incr(write_move(self)) EXCEPT !.level = @ - 1],
                               <<Stmt("end", 0)>>)
    ELSE self

\* lines 235-237: finish() exits with code 3
finishExits(self) == self.level > 0

\* lines 239-240, when finish() returns
finish(self) == write(self, <<Stmt("return", 0)>>)

\* lines 243-252 as a function of the text: the exit and the Compiler object
RECURSIVE compileFrom(_, _, _)
compileFrom(text, i, self) ==
    IF i >= Len(text)
    THEN IF finishExits(self) THEN [pc |-> "exit3", self |-> self]
         ELSE [pc |-> "done", self |-> finish(self)]
    ELSE IF parseExits(self, At(text, i)) THEN [pc |-> "exit4", self |-> self]
    ELSE compileFrom(text, i + 1, parse(self, At(text, i)))

compile(text, dbg, size) == compileFrom(text, 0, start(NewCompiler(dbg, size)))

\* lines 246-250: the Compiler object after the first n characters (none exits)
RECURSIVE parseUpTo(_, _, _)
parseUpTo(text, n, self) ==
    IF n = 0 THEN self
    ELSE parse(parseUpTo(text, n - 1, self), At(text, n - 1))

(***************************************************************************)
(* The emitted C program, run statement by statement (loop-free text).     *)
(* A machine is the pointer as an offset from array, the cells as 8-bit    *)
(* values, the streams, and st: "ok", "returned", "abort" (a failed        *)
(* assert), "ub" (a cell access outside the array), "loop" (a loop         *)
(* statement, which this straight-line run does not execute).              *)
(***************************************************************************)
\* an int stored into a char cell keeps its low 8 bits; getchar's EOF is -1
ToChar(x) == x % 256

InArray(m) == m.ptr >= 0 /\ m.ptr < m.size

Machine(input) ==
    [ptr |-> 0, size |-> 0, mem |-> <<>>, st |-> "ok",
     stdin |-> input, stdin_pos |-> 0, stdout |-> <<>>]

ExecStmt(m, stmt) ==
    IF m.st # "ok" THEN m
    ELSE IF stmt.op = "header"
         THEN [m EXCEPT !.size = stmt.n, !.mem = [i \in 1 .. stmt.n |-> 0], !.ptr = 0]
    ELSE IF stmt.op = "ptr" THEN [m EXCEPT !.ptr = @ + stmt.n]
    ELSE IF stmt.op = "assert"
         THEN IF m.ptr >= 0 /\ m.ptr < stmt.n THEN m ELSE [m EXCEPT !.st = "abort"]
    ELSE IF stmt.op = "return" THEN [m EXCEPT !.st = "returned"]
    ELSE IF stmt.op \in {"while", "end"} THEN [m EXCEPT !.st = "loop"]
    ELSE IF ~InArray(m) THEN [m EXCEPT !.st = "ub"]
    ELSE IF stmt.op = "add"
         THEN [m EXCEPT !.mem[m.ptr + 1] = ToChar(@ + stmt.n)]
    ELSE IF stmt.op = "putchar"
         THEN [m EXCEPT !.stdout = Append(@, At(m.mem, m.ptr))]
    ELSE IF stmt.op = "getchar"
         THEN IF m.stdin_pos < Len(m.stdin)
              THEN [m EXCEPT !.mem[m.ptr + 1] = ToChar(At(m.stdin, m.stdin_pos)),
                             !.stdin_pos = @ + 1]
              ELSE [m EXCEPT !.mem[m.ptr + 1] = ToChar(-1)]
    ELSE m

RECURSIVE ExecFrom(_, _, _)
ExecFrom(m, stmts, i) ==
    IF i >= Len(stmts) THEN m
    ELSE ExecFrom(ExecStmt(m, At(stmts, i)), stmts, i + 1)

Exec(stmts, input) == ExecFrom(Machine(input), stmts, 0)

\* no emitted program is run
Off == [st |-> "off"]

\* the emitted program loaded for a run: its statements and the next one
Load(stmts, input) == Machine(input) @@ [prog |-> stmts, ip |-> 0]

Ops(prog, o, a, b) == Cardinality({k \in a .. b : At(prog, k).op = o})

\* the `}` that closes the `while (*ptr) {` at i, and the `while` the `}` at j closes
CloseOf(prog, i) ==
    CHOOSE j \in i + 1 .. Len(prog) - 1 :
        /\ At(prog, j).op = "end"
        /\ Ops(prog, "while", i, j) = Ops(prog, "end", i, j)
        /\ \A k \in i .. j - 1 : Ops(prog, "while", i, k) > Ops(prog, "end", i, k)

OpenOf(prog, j) ==
    CHOOSE i \in 0 .. j - 1 :
        /\ At(prog, i).op = "while"
        /\ Ops(prog, "while", i, j) = Ops(prog, "end", i, j)
        /\ \A k \in i + 1 .. j : Ops(prog, "while", k, j) < Ops(prog, "end", k, j)

\* one statement of the loaded program, loops included: `while (*ptr) {` tests
\* the current cell, `}` goes back to the test
RunStmt(mm) ==
    LET stmt == At(mm.prog, mm.ip)
    IN IF stmt.op = "while"
       THEN IF ~InArray(mm) THEN [mm EXCEPT !.st = "ub"]
            ELSE IF At(mm.mem, mm.ptr) # 0 THEN [mm EXCEPT !.ip = @ + 1]
            ELSE [mm EXCEPT !.ip = CloseOf(mm.prog, mm.ip) + 1]
       ELSE IF stmt.op = "end" THEN [mm EXCEPT !.ip = OpenOf(mm.prog, mm.ip)]
       ELSE [ExecStmt(mm, stmt) EXCEPT !.ip = @ + 1]

\* lines 246-250 with the pending deltas written before the test of line 224
ParseCharFlushFirst ==
    /\ cpc = "parse" /\ cpos < Len(raw)
    /\ IF parseExits(compiler, At(raw, cpos))
       THEN /\ cpc' = "exit4"
            /\ compiler' = write_incr(write_move(compiler))
            /\ cpos' = cpos
       ELSE /\ compiler' = parse(compiler, At(raw, cpos))
            /\ cpos' = cpos + 1
            /\ cpc' = cpc
    /\ UNCHANGED ivars

\* lines 246-250: one turn of the loop of compile()
ParseChar ==
    /\ cpc = "parse" /\ cpos < Len(raw)
    /\ IF parseExits(compiler, At(raw, cpos))
       THEN cpc' = "exit4" /\ UNCHANGED <<compiler, cpos>>
       ELSE /\ compiler' = parse(compiler, At(raw, cpos))
            /\ cpos' = cpos + 1
            /\ cpc' = cpc
    /\ UNCHANGED ivars

\* lines 248-249, 252
Finish ==
    /\ cpc = "parse" /\ cpos >= Len(raw)
    /\ IF finishExits(compiler)
       THEN cpc' = "exit3" /\ UNCHANGED compiler
       ELSE cpc' = "done" /\ compiler' = finish(compiler)
    /\ UNCHANGED <<cpos, ivars>>

(***************************************************************************)
(* Specifications.                                                         *)
(***************************************************************************)
\* capacity of the translated program's array (option -s)
TapeSize == 2

Alphabet == {">", "<", "+", "-", ".", ",", "[", "]", "!", "#", "\n"}

Inputs == {<<>>, <<0>>, <<7>>, <<7, 0>>}

\* the input stream is read by ',' alone and the debug flag by '!' alone: for a
\* source without them one stream and one flag stand for all
InputsFor(text) == IF "," \in Range(text) THEN Inputs ELSE {<<>>}

FlagsFor(text) == IF "!" \in Range(text) THEN BOOLEAN ELSE {FALSE}

InitOf(sources, inputs, flags) ==
    /\ raw \in sources
    /\ process_input \in inputs
    /\ input_pos = 0
    /\ debug \in flags
    /\ pc = "start"
    /\ source = <<>>
    /\ source_cursor = 0
    /\ source_brackets = <<>>
    /\ array = <<0>>
    /\ cursor = 0
    /\ process_output = <<>>
    /\ stderr = <<>>
    /\ maxCursor = 0
    /\ touched = {}
    /\ compiler = start(NewCompiler(debug, TapeSize))
    /\ cpos = 0
    /\ cpc = "parse"

\* the same, no emitted program being run
InitWith(sources, inputs, flags) ==
    /\ InitOf(sources, inputs, flags)
    /\ machine = Off
    /\ steps = 0
    /\ bodies = 0

Step ==
    \/ ReadSource /\ UNCHANGED avars
    \/ MoveRight /\ UNCHANGED avars
    \/ MoveLeft /\ UNCHANGED avars
    \/ Increment /\ UNCHANGED avars
    \/ Decrement /\ UNCHANGED avars
    \/ Output /\ UNCHANGED avars
    \/ Input /\ UNCHANGED avars
    \/ LoopStart /\ UNCHANGED avars
    \/ LoopEnd /\ UNCHANGED avars
    \/ DebugDump /\ UNCHANGED avars
    \/ Skip /\ UNCHANGED avars
    \/ Return /\ UNCHANGED avars

\* the interpreter on every short source text
Init == \E text \in Seqs(Alphabet, MaxLen) :
            InitWith({text}, InputsFor(text), FlagsFor(text))

Next == Step

Spec == Init /\ [][Next]_vars

\* the translator on every short source text
CAlphabet == Alphabet \cup {"x"}

InitC == InitWith(Seqs(CAlphabet, MaxLen), {<<>>}, BOOLEAN)

NextC ==
    \/ ParseChar /\ UNCHANGED avars
    \/ Finish /\ UNCHANGED avars

SpecC == InitC /\ [][NextC]_vars

\* the end-to-end scenarios, on every one-byte input stream
Copy == <<",", "[", "-", ">", "+", "<", "]", ">", ".">>

Echo == <<",", ".">>

Three == <<"+", "+", "+", ".">>

Four == <<"+", "+", "[", ">", "+", "+", "<", "-", "]", ">", ".">>

InitScen == InitWith({Copy, Echo, Three, Four}, {<<b>> : b \in Byte}, {FALSE})

NextScen ==
    \/ ReadSource /\ UNCHANGED avars
    \/ MoveRight /\ UNCHANGED avars
    \/ MoveLeft /\ UNCHANGED avars
    \/ Increment /\ UNCHANGED avars
    \/ Decrement /\ UNCHANGED avars
    \/ Output /\ UNCHANGED avars
    \/ Input /\ UNCHANGED avars
    \/ LoopStart /\ UNCHANGED avars
    \/ LoopEnd /\ UNCHANGED avars
    \/ Return /\ UNCHANGED avars

\* execute is one sequential loop: it takes its next step whenever it has one
SpecScen == InitScen /\ [][NextScen]_vars /\ WF_vars(NextScen)

\* the interpreter on the runs of moves and value changes, and on every value
\* change of a cell read from every one-byte stream
MoveIncr == {">", "<", "+", "-"}

InitArith ==
    \/ InitWith(Seqs(MoveIncr, MaxArith), {<<>>}, BOOLEAN)
    \/ InitWith({<<",">> \o w : w \in Seqs({"+", "-"}, MaxArith)},
                {<<v>> : v \in Byte}, {FALSE})

NextArith ==
    \/ ReadSource /\ UNCHANGED avars
    \/ MoveRight /\ UNCHANGED avars
    \/ MoveLeft /\ UNCHANGED avars
    \/ Increment /\ UNCHANGED avars
    \/ Decrement /\ UNCHANGED avars
    \/ Input /\ UNCHANGED avars
    \/ Return /\ UNCHANGED avars

SpecArith == InitArith /\ [][NextArith]_vars

\* the eight instructions both engines execute
Instr == {">", "<", "+", "-", ".", ",", "[", "]"}

\* the statements of the emitted program that output, input or test a cell
Events == {"putchar", "getchar", "while"}

MRunning == machine.st = "ok" /\ machine.ip < Len(machine.prog)

MAt(ops) == MRunning /\ At(machine.prog, machine.ip).op \in ops

\* execute is about to output, input or test a cell
IAtEvent == Dispatch /\ cmd \in {".", ",", "["}

IHalted == pc \in {"done", "exit2", "exit3", "exit4"}

\* the emitted program runs up to its next output, input or loop test once
\* execute has reached its own (or has ended)
CStep ==
    /\ IAtEvent \/ IHalted
    /\ MRunning /\ ~MAt(Events)
    /\ machine' = RunStmt(machine)
    /\ UNCHANGED <<ivars, cvars, steps, bodies>>

\* both engines take the same output, input or loop test
Both(A, op) ==
    /\ A
    /\ MAt({op})
    /\ machine' = RunStmt(machine)
    /\ UNCHANGED <<steps, bodies>>

\* the two engines side by side on every short source the translator accepts
\* and on two of the scenarios, the emitted program built by compile()
InitBoth ==
    \E text \in Seqs(Instr, MaxLen) \cup {Copy, Four} :
        /\ InitOf({text}, InputsFor(text), BOOLEAN)
        /\ compile(text, debug, TapeSize).pc = "done"
        /\ machine = Load(compile(text, debug, TapeSize).self.source_output, process_input)
        /\ steps = 0
        /\ bodies = 0

NextBoth ==
    \/ ReadSource /\ UNCHANGED avars
    \/ MoveRight /\ UNCHANGED avars
    \/ MoveLeft /\ UNCHANGED avars
    \/ Increment /\ UNCHANGED avars
    \/ Decrement /\ UNCHANGED avars
    \/ LoopEnd /\ UNCHANGED avars
    \/ Return /\ UNCHANGED avars
    \/ Both(Output, "putchar")
    \/ Both(Input, "getchar")
    \/ Both(LoopStart, "while")
    \/ CStep

SpecBoth == InitBoth /\ [][NextBoth]_vars

\* the wraparound loops
Dec == <<",", "[", "-", "]", ".">>

Inc == <<",", "[", "+", "]", ".">>

\* a source whose loops never run: with a bracket it has no + - ,
NoLoopRuns(text) ==
    (Range(text) \cap {"[", "]"} # {}) => (Range(text) \cap {"+", "-", ","} = {})

\* a turn of execute's loop, counted
Turn(A) ==
    /\ A
    /\ steps' = steps + 1
    /\ bodies' = IF cmd = "[" /\ At(array, cursor) # 0 THEN bodies + 1 ELSE bodies
    /\ UNCHANGED machine

\* the interpreter on the wraparound loops with every input byte, and on every
\* short source of instructions whose loops never run
InitTerm ==
    \/ InitWith({Dec, Inc}, {<<b>> : b \in Byte}, {FALSE})
    \/ \E text \in {t \in Seqs(Instr, MaxLen) : NoLoopRuns(t)} :
          InitWith({text}, InputsFor(text), {FALSE})

NextTerm ==
    \/ ReadSource /\ UNCHANGED avars
    \/ Turn(MoveRight)
    \/ Turn(MoveLeft)
    \/ Turn(Increment)
    \/ Turn(Decrement)
    \/ Turn(Output)
    \/ Turn(Input)
    \/ Turn(LoopStart)
    \/ Turn(LoopEnd)
    \/ Return /\ UNCHANGED avars

\* execute is one sequential loop: it takes its next step whenever it has one
SpecTerm == InitTerm /\ [][NextTerm]_vars /\ WF_vars(NextTerm)

(***************************************************************************)
(* Notions the claims are stated with, defined without the code's scans.   *)
(***************************************************************************)
Count(s, ch, a, b) == Cardinality({k \in a .. b - 1 : At(s, k) = ch})

\* the LoopEnd at q closes the LoopStart at p: the brackets of s[p..q] pair up
\* and no proper prefix of them does
Matches(s, p, q) ==
    /\ p < q /\ At(s, p) = "[" /\ At(s, q) = "]"
    /\ Count(s, "[", p, q + 1) = Count(s, "]", p, q + 1)
    /\ \A m \in p + 1 .. q : Count(s, "[", p, m) > Count(s, "]", p, m)

HasMatch(s, p) == \E q \in p + 1 .. Len(s) - 1 : Matches(s, p, q)

\* position i of the raw text lies in a comment span: from a '#' through the
\* next line terminator
InSpan(s, i) ==
    \E j \in 0 .. i : At(s, j) = "#" /\ \A k \in j .. i - 1 : At(s, k) # "\n"

RECURSIVE Pick(_, _)
Pick(s, i) ==
    IF i >= Len(s) THEN <<>>
    ELSE (IF InSpan(s, i) THEN <<>> ELSE <<At(s, i)>>) \o Pick(s, i + 1)

\* the characters outside the comment spans, in order
Kept(s) == Pick(s, 0)

LoopSkip == Dispatch /\ cmd = "[" /\ At(array, cursor) = 0

(***************************************************************************)
(* C1: when LoopStart is dispatched at p on a zero cell and the LoopEnd at *)
(* q matches p by nesting (q may be the last character), the step leaves   *)
(* the run going with q + 1 the next position; the step fails with "missing*)
(* ]" only if no LoopEnd matches p.                                        *)
(***************************************************************************)
C1_SkipLandsOnMatch ==
    [][LoopSkip =>
         /\ \A q \in 0 .. Len(source) - 1 :
               Matches(source, source_cursor, q)
                   => pc' = "run" /\ source_cursor' = q + 1
         /\ pc' = "exit3" => ~HasMatch(source, source_cursor)]_vars

\* a skip over a loop whose LoopEnd is not the last character has landed
C1_Witness ==
    /\ pc = "run" /\ source = <<"[", "+", "]", "+">> /\ source_cursor = 3
    /\ array = <<0>>

(***************************************************************************)
(* C2: the engines agree on the invalid programs: a source the translator  *)
(* accepts never fails in the interpreter with "missing ]" or "missing [", *)
(* and a source the translator rejects never ends the interpreter normally.*)
(***************************************************************************)
C2_EnginesAgree ==
    LET verdict == compile(raw, debug, TapeSize).pc
    IN /\ verdict = "done" => pc \notin {"exit3", "exit4"}
       /\ verdict \in {"exit3", "exit4"} => pc # "done"

(***************************************************************************)
(* C5: an Input step reads one byte and stores it in the current cell; at  *)
(* the end of the stream it stores 255 and the stream stays at its end;    *)
(* cursor, other cells and the loop stack are unchanged.                   *)
(***************************************************************************)
C5_InputStep ==
    [][(Dispatch /\ cmd = ",") =>
         /\ IF input_pos < Len(process_input)
            THEN /\ At(array', cursor) = At(process_input, input_pos)
                 /\ input_pos' = input_pos + 1
            ELSE /\ At(array', cursor) = 255
                 /\ At(array', cursor) # 0
                 /\ input_pos' = input_pos
         /\ At(array', cursor) \in Byte
         /\ input_pos' <= Len(process_input)
         /\ cursor' = cursor
         /\ Len(array') = Len(array)
         /\ \A i \in 0 .. Len(array) - 1 : i # cursor => At(array', i) = At(array, i)
         /\ source_brackets' = source_brackets
         /\ process_input' = process_input]_vars

\* two Inputs on a one-byte stream: the second found the stream exhausted
C5_Witness ==
    /\ source = <<",", ",">> /\ process_input = <<0>> /\ source_cursor = 2
    /\ input_pos = 1 /\ array = <<255>>

(***************************************************************************)
(* C6: the interpreter fails with "cursor below 0" exactly when MoveLeft   *)
(* is dispatched with the cursor at 0; at every dispatch the cursor is     *)
(* >= 0; nothing runs after the failure; the failing step leaves the tape  *)
(* as it is; MoveRight never fails.                                        *)
(***************************************************************************)
C6_CursorUnderflow ==
    /\ [](/\ pc \in {"start", "run", "done"} => cursor >= 0
          /\ pc = "exit2" => cursor = -1)
    /\ [][/\ pc' = "exit2" <=> (Dispatch /\ cmd = "<" /\ cursor = 0)
          /\ pc # "exit2"
          /\ pc' = "exit2" => array' = array /\ process_output' = process_output
          /\ (Dispatch /\ cmd = ">") => pc' = "run" /\ cursor' = cursor + 1]_vars

\* the failure after a move to the right and back
C6_Witness ==
    /\ pc = "exit2" /\ source = <<">", "+", "<", "<">> /\ source_cursor = 3
    /\ array = <<0, 1>>

(***************************************************************************)
(* C7: as long as the cursor has not gone negative, cursor < length(tape), *)
(* the tape length is 1 + the largest cursor reached, the tape never       *)
(* shrinks, every cell no Increment, Decrement or Input wrote is 0, and K  *)
(* MoveRights alone give length K + 1 and cursor K.                        *)
(***************************************************************************)
C7_TapeGrowth ==
    /\ [](pc \in {"start", "run", "done"} =>
            /\ cursor < Len(array)
            /\ Len(array) = 1 + maxCursor
            /\ \A i \in 0 .. Len(array) - 1 : i \notin touched => At(array, i) = 0
            /\ (pc = "done" /\ Range(source) \subseteq {">"}) =>
                  /\ cursor = Len(source)
                  /\ array = [i \in 1 .. Len(source) + 1 |-> 0])
    /\ [][Len(array') >= Len(array)]_vars

\* two moves to the right, one back: three cells, the written one non-zero
C7_Witness ==
    /\ pc = "done" /\ source = <<">", ">", "<", "+">> /\ cursor = 1
    /\ array = <<0, 1, 0>> /\ maxCursor = 2

(***************************************************************************)
(* C10: the filtered text holds no '#', is the raw text without its        *)
(* comment spans (everything else kept, in order), and filtering it again  *)
(* changes nothing.                                                        *)
(***************************************************************************)
C10_Filter ==
    pc # "start" =>
        /\ "#" \notin Range(source)
        /\ source = Kept(raw)
        /\ Filter(source) = source

\* a comment ended by a line terminator, then a comment ended by the text's end
C10_Witness ==
    /\ pc = "done" /\ raw = <<"#", "\n", "+", "#">> /\ source = <<"+">>

\* a cell the tape has not grown to reads as zero
CellAt(i) == IF i < Len(array) THEN At(array, i) ELSE 0

(***************************************************************************)
(* C3: on the input byte b, `,[->+<]>.` ends normally with the one output  *)
(* byte b, cell 0 = 0 and cell 1 = b after the loop; `,.` outputs the byte *)
(* read; `+++.` outputs the byte 3; `++[>++<-]>.` outputs the byte 4.      *)
(***************************************************************************)
C3_Scenarios ==
    LET b == process_input[1]
    IN /\ [](/\ pc \notin {"exit2", "exit3", "exit4"}
             /\ (raw = Copy /\ pc \in {"run", "done"} /\ source_cursor >= 7) =>
                    CellAt(0) = 0 /\ CellAt(1) = b
             /\ pc = "done" =>
                  /\ source_cursor = Len(source)
                  /\ raw = Copy => process_output = <<b>> /\ array = <<0, b>>
                  /\ raw = Echo => process_output = <<b>>
                  /\ raw = Three => process_output = <<3>>
                  /\ raw = Four => process_output = <<4>> /\ array = <<0, 4>>)
       /\ <>(pc = "done")

\* the copy loop has run 255 times
C3_Witness ==
    /\ pc = "done" /\ raw = Copy /\ process_input = <<255>>
    /\ process_output = <<255>> /\ array = <<0, 255>> /\ cursor = 1

\* the brackets outside the comment spans among the first n characters
LiveCount(s, ch, n) ==
    Cardinality({k \in 0 .. n - 1 : At(s, k) = ch /\ ~InSpan(s, k)})

Nesting(s, n) == LiveCount(s, "[", n) - LiveCount(s, "]", n)

Balanced(s) ==
    /\ \A n \in 0 .. Len(s) : Nesting(s, n) >= 0
    /\ Nesting(s, Len(s)) = 0

Emitted(out, o, n) == Cardinality({k \in 1 .. n : out[k].op = o})

WellNested(out) ==
    /\ \A n \in 0 .. Len(out) : Emitted(out, "while", n) >= Emitted(out, "end", n)
    /\ Emitted(out, "while", Len(out)) = Emitted(out, "end", Len(out))

(***************************************************************************)
(* C8: over the characters outside comments, translation fails with        *)
(* "missing [" at the first LoopEnd met at nesting level 0, else with      *)
(* "missing ]" at the end of input iff the level is > 0, and succeeds iff  *)
(* the source is balanced; the level is >= 0 and is the number of emitted  *)
(* loop openings minus closings; on success the emitted loops are well     *)
(* nested.                                                                 *)
(***************************************************************************)
C8_BracketDetection ==
    LET out == compiler.source_output
    IN /\ compiler.level >= 0
       /\ compiler.level = Nesting(raw, cpos)
       /\ compiler.level = Emitted(out, "while", Len(out)) - Emitted(out, "end", Len(out))
       /\ \A k \in 0 .. cpos - 1 :
             (At(raw, k) = "]" /\ ~InSpan(raw, k)) => Nesting(raw, k) > 0
       /\ cpc = "exit4" =>
             /\ cpos < Len(raw) /\ At(raw, cpos) = "]" /\ ~InSpan(raw, cpos)
             /\ Nesting(raw, cpos) = 0
       /\ cpc = "exit3" => cpos = Len(raw) /\ Nesting(raw, cpos) > 0
       /\ cpc = "done" => cpos = Len(raw) /\ Nesting(raw, cpos) = 0 /\ WellNested(out)
       /\ cpc # "parse" => (cpc = "done" <=> Balanced(raw))

\* a LoopEnd at level 0 after a closed loop
C8_Witness ==
    /\ cpc = "exit4" /\ raw = <<"[", "]", "]", "[">> /\ cpos = 2
    /\ compiler.level = 0

\* the sum of the deltas of the first n statements that are cell-adds
RECURSIVE SumAdds(_, _)
SumAdds(out, n) ==
    IF n = 0 THEN 0
    ELSE SumAdds(out, n - 1) + (IF out[n].op = "add" THEN out[n].n ELSE 0)

(***************************************************************************)
(* C4: after any interleaving of N Increments and M Decrements on a cell   *)
(* that started at v, the interpreter's cell is (v + N - M) mod 256, in    *)
(* 0..255; the deltas of the cell-add statements the translator emits for  *)
(* the same run, once flushed, sum to N - M modulo 256, and executing them *)
(* gives the same 8-bit value.                                             *)
(***************************************************************************)
C4_WrapArithmetic ==
    (Len(raw) >= 1 /\ raw[1] = "," /\ pc \in {"run", "done"} /\ source_cursor >= 1) =>
        LET v == process_input[1]
            N == Count(source, "+", 1, source_cursor)
            M == Count(source, "-", 1, source_cursor)
            self == write_incr(parseUpTo(raw, source_cursor,
                                         start(NewCompiler(debug, TapeSize))))
            sum == SumAdds(self.source_output, Len(self.source_output))
        IN /\ At(array, 0) = (v + N - M) % 256
           /\ At(array, 0) \in 0 .. 255
           /\ self.incr = 0
           /\ (sum - (N - M)) % 256 = 0
           /\ At(Exec(self.source_output, process_input).mem, 0) = At(array, 0)

\* 255 + 1 + 1 wraps to 1
C4_Witness ==
    /\ pc = "done" /\ raw = <<",", "+", "+">> /\ process_input = <<255>>
    /\ array = <<1>>

(***************************************************************************)
(* C9: for a source of moves and value changes whose cursor never goes     *)
(* negative, executing the statements the translator emits leaves the      *)
(* pointer at the interpreter's cursor and every cell at the interpreter's *)
(* value.                                                                  *)
(***************************************************************************)
SameTape(m) ==
    /\ m.st \in {"ok", "returned"}
    /\ m.ptr = cursor
    /\ \A i \in 0 .. m.size - 1 : At(m.mem, i) = CellAt(i)
    /\ \A i \in 0 .. Len(array) - 1 : i >= m.size => At(array, i) = 0

Open(s, n) ==
    {p \in 0 .. n - 1 : At(s, p) = "[" /\ ~\E q \in p + 1 .. n - 1 : Matches(s, p, q)}

Increasing(st) == \A i, j \in 1 .. Len(st) : i < j => st[i] < st[j]

(***************************************************************************)
(* C11: at every dispatch point the loop stack holds exactly the positions,*)
(* in increasing order, of the LoopStarts before ip that no LoopEnd before *)
(* ip matches; so its depth is the dynamic nesting depth and it is empty   *)
(* exactly when no loop is active.                                         *)
(***************************************************************************)
C11_StackIsOpenLoops ==
    pc = "run" =>
        /\ Range(source_brackets) = Open(source, source_cursor)
        /\ Increasing(source_brackets)
        /\ Len(source_brackets) = Cardinality(Open(source, source_cursor))
        /\ source_brackets = <<>> <=> Open(source, source_cursor) = {}

\* inside the inner of two entered loops
C11_Witness ==
    /\ pc = "run" /\ source = <<"+", "[", "[", "-">> /\ source_cursor = 3
    /\ source_brackets = <<1, 2>>

(***************************************************************************)
(* C12: a LoopEnd at q dispatched with a non-empty stack pops the LoopStart*)
(* p that matches q by nesting, leaves tape and cursor as they are, and    *)
(* makes p the next dispatched position; the LoopStart there tests the     *)
(* current cell again, entering the body and pushing p iff it is non-zero. *)
(* With an empty stack the step fails with "missing [".                    *)
(***************************************************************************)
C12_LoopEndReturns ==
    [][/\ (Dispatch /\ cmd = "]" /\ source_brackets # <<>>) =>
             LET p == source_brackets[Len(source_brackets)]
             IN /\ Matches(source, p, source_cursor)
                /\ source_brackets' = SubSeq(source_brackets, 1, Len(source_brackets) - 1)
                /\ array' = array /\ cursor' = cursor
                /\ pc' = "run" /\ source_cursor' = p /\ At(source, p) = "["
       /\ (Dispatch /\ cmd = "]" /\ source_brackets = <<>>) =>
             pc' = "exit4" /\ array' = array /\ cursor' = cursor
       /\ (Dispatch /\ cmd = "[") =>
             /\ At(array, cursor) # 0 =>
                   /\ source_brackets' = Append(source_brackets, source_cursor)
                   /\ source_cursor' = source_cursor + 1 /\ pc' = "run"
             /\ At(array, cursor) = 0 =>
                   /\ source_brackets' = source_brackets
                   /\ pc' = "run" => source_cursor' > source_cursor + 1
             /\ array' = array /\ cursor' = cursor]_vars

\* back on the LoopStart after one turn of the body, the cell now zero
C12_Witness ==
    /\ pc = "run" /\ source = <<"+", "[", "-", "]">> /\ source_cursor = 1
    /\ array = <<0>> /\ source_brackets = <<>>

IsInstr(c) == c \in Instr

\* the instructions outside the comment spans among the first n characters
RECURSIVE LiveInstr(_, _)
LiveInstr(s, n) ==
    IF n = 0 THEN <<>>
    ELSE LiveInstr(s, n - 1)
         \o (IF At(s, n - 1) \in Instr /\ ~InSpan(s, n - 1) THEN <<At(s, n - 1)>> ELSE <<>>)

\* the runs of a sequence of instructions: "ptr" with the net displacement of a
\* maximal run of moves, "add" with the net delta of a maximal run of value
\* changes, "sep" for every other instruction
RECURSIVE RunsOf(_)
RunsOf(w) ==
    IF w = <<>> THEN <<>>
    ELSE LET r == RunsOf(SubSeq(w, 1, Len(w) - 1))
             c == w[Len(w)]
             kind == IF c \in {">", "<"} THEN "ptr"
                     ELSE IF c \in {"+", "-"} THEN "add" ELSE "sep"
             d == IF c \in {">", "+"} THEN 1 ELSE IF c \in {"<", "-"} THEN -1 ELSE 0
         IN IF kind # "sep" /\ r # <<>> /\ r[Len(r)].op = kind
            THEN [r EXCEPT ![Len(r)].n = @ + d]
            ELSE Append(r, [op |-> kind, n |-> d])

IsNetRun(r) == r.op # "sep" /\ r.n # 0

IsMoveOrAdd(st) == st.op \in {"ptr", "add"}

\* the statements a flush of the pending deltas emits, assertions left out
Pending(self) ==
    (IF self.move # 0 THEN <<Stmt("ptr", self.move)>> ELSE <<>>)
    \o (IF self.incr # 0 THEN <<Stmt("add", self.incr)>> ELSE <<>>)

\* the statements write_move then write_incr emit
FlushText(self) ==
    (IF self.move # 0
     THEN <<Stmt("ptr", self.move)>>
          \o (IF self.debug THEN <<Stmt("assert", self.size)>> ELSE <<>>)
     ELSE <<>>)
    \o (IF self.incr # 0 THEN <<Stmt("add", self.incr)>> ELSE <<>>)

EventStmt(c) ==
    IF c = "." THEN Stmt("putchar", 0)
    ELSE IF c = "," THEN Stmt("getchar", 0)
    ELSE IF c = "[" THEN Stmt("while", 0)
    ELSE Stmt("end", 0)

\* parse is about to act on an Output, Input, LoopStart or LoopEnd
ParsesEvent ==
    /\ cpc = "parse" /\ cpos < Len(raw)
    /\ At(raw, cpos) \in {".", ",", "[", "]"} /\ ~InSpan(raw, cpos)

(***************************************************************************)
(* C13: after every parse step at most one of the pending move and the     *)
(* pending value accumulator is non-zero; both are zero right before and   *)
(* after the statement emitted for an Output, Input, LoopStart or LoopEnd; *)
(* the emitted pointer-advance and cell-add statements come in the order   *)
(* of the move runs and value runs of the source.                          *)
(***************************************************************************)
C13_PendingBuffer ==
    /\ [](/\ ~(compiler.move # 0 /\ compiler.incr # 0)
          /\ SelectSeq(compiler.source_output, IsMoveOrAdd) \o Pending(compiler)
                = SelectSeq(RunsOf(LiveInstr(raw, cpos)), IsNetRun))
    /\ [][(ParsesEvent /\ cpc' = "parse") =>
             /\ compiler'.move = 0 /\ compiler'.incr = 0
             /\ compiler'.source_output
                   = compiler.source_output \o FlushText(compiler)
                        \o <<EventStmt(At(raw, cpos))>>]_vars

\* a move run, a value run and a move run, flushed in that order by an Output
C13_Witness ==
    /\ raw = <<">", "+", "<", ".">> /\ cpos = 4 /\ debug = FALSE
    /\ compiler.source_output
          = <<Stmt("header", TapeSize), Stmt("ptr", 1), Stmt("add", 1),
              Stmt("ptr", -1), Stmt("putchar", 0)>>
    /\ compiler.move = 0 /\ compiler.incr = 0

C15_AssertAfterMove ==
    LET out == compiler.source_output
    IN \A k \in 1 .. Len(out) :
          /\ (out[k].op = "ptr" /\ debug) =>
                k < Len(out) /\ out[k + 1] = Stmt("assert", TapeSize)
          /\ out[k].op = "assert" => debug /\ k > 1 /\ out[k - 1].op = "ptr"
          /\ (debug /\ out[k].op \in {"add", "putchar", "getchar", "while"}) =>
                \A j \in 1 .. k - 1 :
                    out[j].op = "ptr" => j + 1 < k /\ out[j + 1].op = "assert"

\* debug: a pointer move, its assertion, then the cell-add
C15_Witness ==
    /\ debug /\ raw = <<">", "+", ".">> /\ cpos = 3
    /\ compiler.source_output
          = <<Stmt("header", TapeSize), Stmt("ptr", 1), Stmt("assert", TapeSize),
              Stmt("add", 1), Stmt("putchar", 0)>>

(***************************************************************************)
(* C16: a LoopEnd at nesting level 0 fails before any pending delta is     *)
(* flushed or any text emitted; the end of input at level > 0 fails        *)
(* without a flush and without the final return; the final return is       *)
(* emitted once, as the last text, and only on success.                    *)
(***************************************************************************)
C16_FailuresEmitNothing ==
    /\ [][cpc' \in {"exit3", "exit4"} => compiler' = compiler]_vars
    /\ [](LET out == compiler.source_output
          IN /\ Emitted(out, "return", Len(out)) = (IF cpc = "done" THEN 1 ELSE 0)
             /\ cpc = "done" => out[Len(out)].op = "return")

\* `+>]`: the failure leaves the move pending and only the value run emitted
C16_Witness ==
    /\ cpc = "exit4" /\ raw = <<"+", ">", "]">> /\ compiler.move = 1
    /\ compiler.source_output = <<Stmt("header", TapeSize), Stmt("add", 1)>>

\* what parse(c) can change besides the comment flag
Effect(self) == <<self.move, self.incr, self.level, self.source_output>>

\* the characters among the first n on which parse changed the buffer, the
\* level or the output
RECURSIVE ActedOn(_, _)
ActedOn(text, n) ==
    IF n = 0 THEN <<>>
    ELSE LET before == parseUpTo(text, n - 1, start(NewCompiler(debug, TapeSize)))
             after == parse(before, At(text, n - 1))
         IN ActedOn(text, n - 1)
            \o (IF Effect(after) # Effect(before) THEN <<At(text, n - 1)>> ELSE <<>>)

(***************************************************************************)
(* C17: the instruction characters the translator's scanner acts on are,   *)
(* in order, the instruction characters of the text the interpreter's      *)
(* filter produces; a character inside a comment span, '!' or any other    *)
(* character changes neither the buffer, the nesting level nor the output. *)
(***************************************************************************)
C17_SameStream ==
    /\ [](ActedOn(raw, cpos) = SelectSeq(Filter(SubSeq(raw, 1, cpos)), IsInstr))
    /\ [][(cpc = "parse" /\ cpos < Len(raw) /\ cpos' = cpos + 1) =>
             LET c == At(raw, cpos)
                 kept == Filter(SubSeq(raw, 1, cpos + 1))
                            = Append(Filter(SubSeq(raw, 1, cpos)), c)
             IN (~kept \/ c \notin Instr) => Effect(compiler') = Effect(compiler)]_vars

\* `#+` then a line terminator then `.`: the commented `+` is dropped by both
C17_Witness ==
    /\ cpc = "done" /\ raw = <<"#", "+", "\n", ".">>
    /\ compiler.source_output
          = <<Stmt("header", TapeSize), Stmt("putchar", 0), Stmt("return", 0)>>

\* the interpreter run so far kept its cursor within [0, capacity - 1]
Within == pc # "exit2" /\ maxCursor < TapeSize

\* the statement of the emitted program that an instruction's event is
EventOf(c) == IF c = "." THEN "putchar" ELSE IF c = "," THEN "getchar" ELSE "while"

(***************************************************************************)
(* C18: for a bracket-balanced source and an input stream on which the     *)
(* interpreter keeps its cursor within [0, capacity - 1], the program a    *)
(* successful translation emits writes the same output bytes as the        *)
(* interpreter, and at every Output, Input and loop test its pointer       *)
(* offset and current cell equal the interpreter's cursor and cell.        *)
(***************************************************************************)
C18_ObservablyEquivalent ==
    Within =>
        /\ machine.stdout = process_output
        /\ machine.st \in {"ok", "returned"}
        /\ IAtEvent => machine.st = "ok"
        /\ (IAtEvent /\ MAt(Events)) =>
              /\ At(machine.prog, machine.ip).op = EventOf(cmd)
              /\ machine.ptr = cursor
              /\ At(machine.mem, machine.ptr) = At(array, cursor)
        /\ IHalted => ~MAt(Events)
        /\ (pc = "done" /\ ~MRunning) => machine.st = "returned"

\* the copy loop on input byte 7: both engines ended, both wrote 7
C18_Witness ==
    /\ raw = Copy /\ process_input = <<7>> /\ pc = "done"
    /\ machine.st = "returned" /\ machine.stdout = <<7>> /\ process_output = <<7>>
    /\ machine.ptr = 1 /\ cursor = 1

(***************************************************************************)
(* C19: for every input byte b, `,[-].` and `,[+].` end normally after b   *)
(* and (256 - b) mod 256 executions of the loop body, with the one output  *)
(* byte 0; the instruction pointer grows on every step that continues the  *)
(* run except a LoopEnd with a non-empty stack, so a source without loops  *)
(* ends, normally or with CursorUnderflow, within length(source) steps.    *)
(***************************************************************************)
C19_Termination ==
    /\ [](raw \in {Dec, Inc} => <>(pc = "done"))
    /\ [](raw \in {Dec, Inc} /\ pc = "done" =>
            /\ process_output = <<0>>
            /\ raw = Dec => bodies = process_input[1]
            /\ raw = Inc => bodies = (256 - process_input[1]) % 256)
    /\ [][(Dispatch /\ pc' = "run") =>
             \/ source_cursor' > source_cursor
             \/ cmd = "]" /\ source_brackets # <<>>]_vars
    /\ [](Range(Filter(raw)) \cap {"[", "]"} = {} =>
            /\ steps <= Len(Filter(raw))
            /\ <>(pc \in {"done", "exit2"}))

\* `,[+].` on input byte 3: 253 bodies, the cell wrapped to 0
C19_Witness ==
    /\ raw = Inc /\ process_input = <<3>> /\ pc = "done"
    /\ bodies = 253 /\ process_output = <<0>> /\ steps = 1 + 253 * 3 + 2

====
